---- MODULE Spec2Model ----
(***************************************************************************)
(* Static file serving of ChisaServer (src/backups.js): static(),          *)
(* #handleStaticFiles, #serveStaticFile, the listen callback and the       *)
(* helpers res.sendFile and res.download.                                  *)
(*                                                                         *)
(* JavaScript strings (paths, header values) are sequences of one-         *)
(* character strings, so prefix tests, slicing, splitting and number       *)
(* formatting are computed character by character.  The empty sequence     *)
(* stands for a falsy string value (undefined or '').                      *)
(***************************************************************************)
EXTENDS Integers, Sequences, FiniteSets, TLC

VARIABLES staticPaths, calls, configError, fs, pc, req, mountIdx, target,
          res, thrown, staticServed, passedOn, statLog, stats, dirStats,
          previous, helper

vars == <<staticPaths, calls, configError, fs, pc, req, mountIdx, target,
          res, thrown, staticServed, passedOn, statLog, stats, dirStats,
          previous, helper>>

-----------------------------------------------------------------------------
(* JavaScript string primitives                                            *)

Empty == <<>>

\* String.prototype.startsWith
StartsWith(s, p) == Len(p) <= Len(s) /\ SubSeq(s, 1, Len(p)) = p

\* String.prototype.slice(n)
Slice(s, n) == SubSeq(s, n + 1, Len(s))

\* Position of the first occurrence of the character c in s, 0 when absent
IndexOfChar(s, c) ==
    IF \E k \in 1..Len(s) : s[k] = c
    THEN CHOOSE k \in 1..Len(s) : s[k] = c /\ \A j \in 1..(k - 1) : s[j] # c
    ELSE 0

\* String.prototype.split(c) for a one-character separator
RECURSIVE Split(_, _)
Split(s, c) ==
    LET k == IndexOfChar(s, c)
    IN  IF k = 0 THEN <<s>>
        ELSE <<SubSeq(s, 1, k - 1)>> \o Split(Slice(s, k), c)

\* Array.prototype.join(c)
RECURSIVE JoinWith(_, _)
JoinWith(parts, c) ==
    IF Len(parts) = 0 THEN Empty
    ELSE IF Len(parts) = 1 THEN parts[1]
    ELSE parts[1] \o <<c>> \o JoinWith(Tail(parts), c)

\* String.prototype.replace(pattern, "") for a literal pattern: removes the
\* first occurrence only
ReplaceFirst(s, pat) ==
    LET hits == {k \in 1..(Len(s) - Len(pat) + 1) : SubSeq(s, k, k + Len(pat) - 1) = pat}
    IN  IF hits = {} THEN s
        ELSE LET k == CHOOSE k \in hits : \A j \in hits : k <= j
             IN  SubSeq(s, 1, k - 1) \o Slice(s, k + Len(pat) - 1)

-----------------------------------------------------------------------------
(* JavaScript numbers: an integer or NaN                                   *)

Num(n) == [nan |-> FALSE, v |-> n]
NaN == [nan |-> TRUE, v |-> 0]

\* a >= b, false when either side is NaN
NumGe(a, b) == ~a.nan /\ ~b.nan /\ a.v >= b.v

\* a - b + 1
SpanLength(a, b) == IF a.nan \/ b.nan THEN NaN ELSE Num(a.v - b.v + 1)

DigitChars == <<"0", "1", "2", "3", "4", "5", "6", "7", "8", "9">>

IsDigit(c) == \E d \in 1..10 : DigitChars[d] = c

DigitValue(c) == (CHOOSE d \in 1..10 : DigitChars[d] = c) - 1

\* Decimal digits of a natural number
RECURSIVE NatStr(_)
NatStr(n) == IF n < 10 THEN <<DigitChars[n + 1]>>
             ELSE NatStr(n \div 10) \o <<DigitChars[(n % 10) + 1]>>

\* String(x) as template literals and setHeader render a number
NumStr(x) == IF x.nan THEN <<"N", "a", "N">>
             ELSE IF x.v < 0 THEN <<"-">> \o NatStr(0 - x.v)
             ELSE NatStr(x.v)

\* Value of the leading run of decimal digits of s, acc the value so far
RECURSIVE DigitRun(_, _)
DigitRun(s, acc) ==
    IF Len(s) = 0 \/ ~IsDigit(Head(s)) THEN acc
    ELSE DigitRun(Tail(s), 10 * acc + DigitValue(Head(s)))

RECURSIVE SkipSpaces(_)
SkipSpaces(s) == IF Len(s) > 0 /\ Head(s) = " " THEN SkipSpaces(Tail(s)) ELSE s

\* parseInt(s, 10): leading blanks, an optional sign, then the longest run
\* of digits; NaN when there is no digit
ParseInt(s) ==
    LET t == SkipSpaces(s)
        neg == Len(t) > 0 /\ Head(t) = "-"
        u == IF Len(t) > 0 /\ Head(t) \in {"-", "+"} THEN Tail(t) ELSE t
    IN  IF Len(u) = 0 \/ ~IsDigit(Head(u)) THEN NaN
        ELSE Num(IF neg THEN 0 - DigitRun(u, 0) ELSE DigitRun(u, 0))

-----------------------------------------------------------------------------
(* node:path (POSIX), as used by static() and #handleStaticFiles           *)

DotDot == <<".", ".">>

\* normalizeString: drops empty and "." segments, resolves ".." against the
\* segment before it; above the top, ".." is kept only for relative paths
RECURSIVE NormalizeSegments(_, _, _)
NormalizeSegments(segs, acc, allowAboveRoot) ==
    IF Len(segs) = 0 THEN acc
    ELSE LET s == Head(segs)
         IN  IF s = Empty \/ s = <<".">>
             THEN NormalizeSegments(Tail(segs), acc, allowAboveRoot)
             ELSE IF s = DotDot
             THEN IF Len(acc) > 0 /\ acc[Len(acc)] # DotDot
                  THEN NormalizeSegments(Tail(segs), SubSeq(acc, 1, Len(acc) - 1), allowAboveRoot)
                  ELSE IF allowAboveRoot
                  THEN NormalizeSegments(Tail(segs), Append(acc, s), allowAboveRoot)
                  ELSE NormalizeSegments(Tail(segs), acc, allowAboveRoot)
             ELSE NormalizeSegments(Tail(segs), Append(acc, s), allowAboveRoot)

\* path.normalize: keeps a leading and a trailing separator
Normalize(p) ==
    IF Len(p) = 0 THEN <<".">>
    ELSE LET isAbsolute == p[1] = "/"
             trailingSeparator == p[Len(p)] = "/"
             body == JoinWith(NormalizeSegments(Split(p, "/"), <<>>, ~isAbsolute), "/")
         IN  IF Len(body) = 0
             THEN IF isAbsolute THEN <<"/">>
                  ELSE IF trailingSeparator THEN <<".", "/">> ELSE <<".">>
             ELSE (IF isAbsolute THEN <<"/">> ELSE Empty) \o body
                  \o (IF trailingSeparator THEN <<"/">> ELSE Empty)

\* path.join(a, b): the non-empty arguments joined by "/", then normalized
PathJoin(a, b) ==
    LET joined == IF Len(a) = 0 THEN b
                  ELSE IF Len(b) = 0 THEN a
                  ELSE a \o <<"/">> \o b
    IN  IF Len(joined) = 0 THEN <<".">> ELSE Normalize(joined)

\* process.cwd()
Cwd == <<"/">>

\* path.resolve(p): made absolute against the working directory, normalized,
\* without a trailing separator
PathResolve(p) ==
    LET full == IF Len(p) > 0 /\ p[1] = "/" THEN p
                ELSE IF Len(p) = 0 THEN Cwd
                ELSE Cwd \o <<"/">> \o p
    IN  <<"/">> \o JoinWith(NormalizeSegments(Split(full, "/"), <<>>, FALSE), "/")

\* p without its trailing separators (the root stays "/")
RECURSIVE StripTrailing(_)
StripTrailing(p) ==
    IF Len(p) > 1 /\ p[Len(p)] = "/" THEN StripTrailing(SubSeq(p, 1, Len(p) - 1)) ELSE p

\* path.basename(p): the last segment, trailing separators ignored
Basename(p) ==
    LET q == StripTrailing(p)
        parts == Split(q, "/")
    IN  parts[Len(parts)]

-----------------------------------------------------------------------------
(* The file system seen through fs.promises.stat                           *)

FileNode(size, mtime) == [kind |-> "file", size |-> size, mtime |-> mtime]
DirNode == [kind |-> "dir", size |-> 0, mtime |-> 0]

\* The ancestors of p: its prefixes that end before a separator
Ancestors(p) == {SubSeq(p, 1, k - 1) : k \in {j \in 2..Len(p) : p[j] = "/"}}

\* fs.promises.stat(p) on the file system f: err is "" on success, else the
\* error code; ENOTDIR when a file is used as a directory
Stat(f, p) ==
    LET q == StripTrailing(p)
        failed(code) == [err |-> code, kind |-> "none", size |-> 0, mtime |-> 0]
    IN  IF \E a \in Ancestors(q) : a \in DOMAIN f /\ f[a].kind = "file"
        THEN failed("ENOTDIR")
        ELSE IF q \notin DOMAIN f THEN failed("ENOENT")
        ELSE IF q # p /\ f[q].kind = "file" THEN failed("ENOTDIR")
        ELSE [err |-> "", kind |-> f[q].kind, size |-> f[q].size, mtime |-> f[q].mtime]

IsFile(st) == st.kind = "file"
IsDirectory(st) == st.kind = "dir"

-----------------------------------------------------------------------------
(* Values of the server                                                    *)

\* Upper bound on the successful static() calls of a run
MaxCalls == 2

IndexHtml == <<"i", "n", "d", "e", "x", ".", "h", "t", "m", "l">>

HeaderNames == {"ETag", "Content-Type", "Content-Length", "Cache-Control",
                "Content-Range", "Accept-Ranges", "Content-Disposition"}

NoStream == [open |-> FALSE, path |-> Empty, ranged |-> FALSE,
             start |-> Num(0), end |-> Num(0)]

\* A fresh http.ServerResponse: statusCode 200, no header, nothing written
FreshResponse == [status |-> 200, headers |-> [h \in HeaderNames |-> Empty],
                  ended |-> FALSE, stream |-> NoStream]

SetHeader(r, name, value) == [r EXCEPT !.headers[name] = value]

NoError == [kind |-> "none", status |-> 0, code |-> ""]
HttpError(status) == [kind |-> "HttpError", status |-> status, code |-> ""]
SysError(code) == [kind |-> "Error", status |-> 0, code |-> code]
TypeError == [kind |-> "TypeError", status |-> 0, code |-> ""]
RangeError == [kind |-> "RangeError", status |-> 0, code |-> "ERR_OUT_OF_RANGE"]

NoStats == [err |-> "none", kind |-> "none", size |-> 0, mtime |-> 0]

\* No validator sent yet
NoValidator == [etag |-> Empty, size |-> 0, mtime |-> 0]

\* No call of res.sendFile or res.download
NoHelper == [name |-> "none", path |-> Empty, given |-> Empty,
             filename |-> Empty, reqBound |-> FALSE]

-----------------------------------------------------------------------------
(* static(urlPath, dirPath, options)                                       *)

\* An options argument: the keys in "given" are present, the others undefined
Options(given, index, dotfiles, etag, maxAge) ==
    [given |-> given, index |-> index, dotfiles |-> dotfiles, etag |-> etag,
     maxAge |-> maxAge]

NoOptions == Options({}, Empty, "", TRUE, 0)

\* Variant: the omitted dotfiles option defaults to 'deny'
StaticOptionsDenyingDotfiles(options) ==
    LET has(k) == k \in options.given
    IN  [index |-> IF has("index") THEN options.index ELSE IndexHtml,
         dotfiles |-> IF has("dotfiles") THEN options.dotfiles ELSE "deny",
         etag |-> IF has("etag") THEN options.etag ELSE TRUE,
         maxAge |-> IF has("maxAge") THEN options.maxAge ELSE 0]

\* staticOptions: the defaults computed with ||, then overridden by every key
\* the caller gave (...options)
StaticOptions(options) ==
    LET has(k) == k \in options.given
        defaults ==
            [index |-> IF has("index") /\ options.index # Empty
                       THEN options.index ELSE IndexHtml,
             dotfiles |-> IF has("dotfiles") /\ options.dotfiles # ""
                          THEN options.dotfiles ELSE "ignore",
             etag |-> ~(has("etag") /\ options.etag = FALSE),
             maxAge |-> IF has("maxAge") /\ options.maxAge # 0
                        THEN options.maxAge ELSE 0]
    IN  [index |-> IF has("index") THEN options.index ELSE defaults.index,
         dotfiles |-> IF has("dotfiles") THEN options.dotfiles ELSE defaults.dotfiles,
         etag |-> IF has("etag") THEN options.etag ELSE defaults.etag,
         maxAge |-> IF has("maxAge") THEN options.maxAge ELSE defaults.maxAge]

\* The Map entry static() stores under urlPath
MountEntry(urlPath, dirPath, options) ==
    [urlPath |-> urlPath, dirPath |-> PathResolve(dirPath),
     options |-> StaticOptions(options)]

\* Map.prototype.set on a Map kept as the sequence of its entries in
\* insertion order: an existing key keeps its place and gets the new value
MapSet(m, entry) ==
    IF \E k \in 1..Len(m) : m[k].urlPath = entry.urlPath
    THEN LET k == CHOOSE k \in 1..Len(m) : m[k].urlPath = entry.urlPath
         IN  [m EXCEPT ![k] = entry]
    ELSE Append(m, entry)

\* The argument check of static(): !urlPath || !dirPath
ArgumentsMissing(urlPath, dirPath) == urlPath = Empty \/ dirPath = Empty

Static(urlPath, dirPath, options) ==
    /\ pc = "setup"
    /\ Len(calls) < MaxCalls
    /\ IF ArgumentsMissing(urlPath, dirPath)
       THEN /\ configError' = TRUE
            /\ UNCHANGED <<staticPaths, calls>>
       ELSE /\ configError' = FALSE
            /\ staticPaths' = MapSet(staticPaths, MountEntry(urlPath, dirPath, options))
            /\ calls' = Append(calls, MountEntry(urlPath, dirPath, options))
    /\ UNCHANGED <<fs, pc, req, mountIdx, target, res, thrown, staticServed,
                   passedOn, statLog, stats, dirStats, previous, helper>>

-----------------------------------------------------------------------------
(* #serveStaticFile(req, res, filePath, options)                           *)

\* Variant: size and time are written one after the other, W/"<size><mtime>"
ETagWithoutSeparator(size, mtime) ==
    <<"W", "/", "\"">> \o NatStr(size) \o NatStr(mtime) \o <<"\"">>

\* The weak validator W/"<size>-<mtime>"
ETagOf(size, mtime) ==
    <<"W", "/", "\"">> \o NatStr(size) \o <<"-">> \o NatStr(mtime) \o <<"\"">>

\* Variant: the header is compared with the validator stripped of its weak
\* prefix W/
IsFreshStrong(request, etag) == request.inm = Slice(etag, 2)

\* req.headers['if-none-match'] === etag
IsFresh(request, etag) == request.inm = etag

\* mime.lookup(filePath): the type of the extension, Empty (false) when the
\* name has no known extension
MimeLookup(filePath) ==
    LET name == Basename(filePath)
        ext == <<".", "h", "t", "m", "l">>
    IN  IF Len(name) > Len(ext) /\ SubSeq(name, Len(name) - Len(ext) + 1, Len(name)) = ext
        THEN <<"t", "e", "x", "t", "/", "h", "t", "m", "l">>
        ELSE Empty

MimeType(filePath) ==
    IF MimeLookup(filePath) # Empty THEN MimeLookup(filePath)
    ELSE <<"a", "p", "p", "l", "i", "c", "a", "t", "i", "o", "n", "/", "o", "c", "t", "e", "t", "-", "s", "t", "r", "e", "a", "m">>

\* Variant: `public, max-age=${options.maxAge}`
CacheControlUndivided(maxAge) == <<"p", "u", "b", "l", "i", "c", ",", " ", "m", "a", "x", "-", "a", "g", "e", "=">> \o NatStr(maxAge)

\* `public, max-age=${Math.floor(options.maxAge / 1000)}`
CacheControl(maxAge) == <<"p", "u", "b", "l", "i", "c", ",", " ", "m", "a", "x", "-", "a", "g", "e", "=">> \o NatStr(maxAge \div 1000)

\* range.replace(/bytes=/, "").split("-")
RangeParts(range) == Split(ReplaceFirst(range, <<"b", "y", "t", "e", "s", "=">>), "-")

RangeStart(range) == ParseInt(RangeParts(range)[1])

\* Variant: an absent end defaults to stats.size
RangeEndAtSize(range, size) ==
    LET parts == RangeParts(range)
    IN  IF Len(parts) >= 2 /\ parts[2] # Empty THEN ParseInt(parts[2])
        ELSE Num(size)

\* parts[1] ? parseInt(parts[1], 10) : stats.size - 1
RangeEnd(range, size) ==
    LET parts == RangeParts(range)
    IN  IF Len(parts) >= 2 /\ parts[2] # Empty THEN ParseInt(parts[2])
        ELSE Num(size - 1)

\* Variant: start > stats.size || end > stats.size
RangeNotSatisfiablePastSize(start, end, size) ==
    NumGe(start, Num(size + 1)) \/ NumGe(end, Num(size + 1))

\* start >= stats.size || end >= stats.size
RangeNotSatisfiable(start, end, size) ==
    NumGe(start, Num(size)) \/ NumGe(end, Num(size))

\* `bytes */${stats.size}`
ContentRangeUnsatisfied(size) == <<"b", "y", "t", "e", "s", " ", "*", "/">> \o NatStr(size)

\* `bytes ${start}-${end}/${stats.size}`
ContentRange(start, end, size) ==
    <<"b", "y", "t", "e", "s", " ">> \o NumStr(start) \o <<"-">> \o NumStr(end) \o <<"/">> \o NatStr(size)

\* fs.createReadStream(filePath, {start, end}) validates its offsets and
\* raises ERR_OUT_OF_RANGE for an offset that is not an integer (NaN), for a
\* negative offset and for start > end
CreateReadStreamThrows(start, end) ==
    \/ start.nan \/ end.nan
    \/ start.v < 0 \/ end.v < 0
    \/ start.v > end.v

\* The catch of #serveStaticFile: ENOENT becomes HttpError(404), anything
\* else is rethrown
ServeCatch(err) == IF err.code = "ENOENT" THEN HttpError(404) ELSE err

\* The result of the call: the response as written, the error thrown out of
\* it (NoError when it returns) and the stat it took
ServeStaticFile(request, response, filePath, options, f) ==
    LET st == Stat(f, filePath)
        result(r, e) == [res |-> r, thrown |-> e, stats |-> st]
        etag == ETagOf(st.size, st.mtime)
        r1 == IF options.etag THEN SetHeader(response, "ETag", etag) ELSE response
        r2 == SetHeader(SetHeader(r1, "Content-Type", MimeType(filePath)),
                        "Content-Length", NatStr(st.size))
        r3 == IF options.maxAge # 0
              THEN SetHeader(r2, "Cache-Control", CacheControl(options.maxAge))
              ELSE r2
        start == RangeStart(request.range)
        end == RangeEnd(request.range, st.size)
        r416 == [SetHeader(r3, "Content-Range", ContentRangeUnsatisfied(st.size))
                    EXCEPT !.status = 416, !.ended = TRUE]
        r206 == [SetHeader(SetHeader(SetHeader(r3,
                    "Content-Range", ContentRange(start, end, st.size)),
                    "Accept-Ranges", <<"b", "y", "t", "e", "s">>),
                    "Content-Length", NumStr(SpanLength(end, start)))
                    EXCEPT !.status = 206]
    IN  IF st.err # "" THEN result(response, ServeCatch(SysError(st.err)))
        ELSE IF ~IsFile(st) THEN result(response, ServeCatch(HttpError(404)))
        ELSE IF options.etag /\ IsFresh(request, etag)
        THEN result([r1 EXCEPT !.status = 304, !.ended = TRUE], NoError)
        ELSE IF request.range # Empty
        THEN IF RangeNotSatisfiable(start, end, st.size)
             THEN result(r416, NoError)
             ELSE IF CreateReadStreamThrows(start, end)
             THEN result(r206, ServeCatch(RangeError))
             ELSE result([r206 EXCEPT !.stream =
                             [open |-> TRUE, path |-> filePath, ranged |-> TRUE,
                              start |-> start, end |-> end]], NoError)
        ELSE result([r3 EXCEPT !.stream =
                        [open |-> TRUE, path |-> filePath, ranged |-> FALSE,
                         start |-> Num(0), end |-> Num(0)]], NoError)

-----------------------------------------------------------------------------
(* #handleStaticFiles(req, res)                                            *)

\* req.path.startsWith(urlPath)
MountMatches(mount, path) == StartsWith(path, mount.urlPath)

\* path.join(dirPath, req.path.slice(urlPath.length))
AbsolutePath(mount, path) == PathJoin(mount.dirPath, Slice(path, Len(mount.urlPath)))

\* The traversal guard: absolutePath.startsWith(dirPath)
TraversalCheckPasses(absolutePath, dirPath) == StartsWith(absolutePath, dirPath)

\* The for-of loop over the Map: the first entry at or after position from
\* whose urlPath the path starts with, 0 when the loop runs out
NextMatch(mounts, path, from) ==
    IF \E k \in from..Len(mounts) : MountMatches(mounts[k], path)
    THEN CHOOSE k \in from..Len(mounts) :
             /\ MountMatches(mounts[k], path)
             /\ \A j \in from..(k - 1) : ~MountMatches(mounts[j], path)
    ELSE 0

\* path.basename(absolutePath).startsWith('.')
IsDotfile(absolutePath) == StartsWith(Basename(absolutePath), <<".">>)

\* Variant: the catch continues on err.status === 404
IsRecoverableByStatus(err) == err.status = 404

\* Variant: the catch continues on every error
IsRecoverableAlways(err) == err.kind # "none"

\* The catch of #handleStaticFiles continues with the next mount for these
\* errors and rethrows the others
IsRecoverable(err) == err.code = "ENOENT"

\* Variant: the dotfile switch treats every policy but 'deny' as 'ignore'
ResolveHidingDotfiles(st, absolutePath, options) ==
    LET throw(e) == [serve |-> FALSE, path |-> absolutePath, err |-> e]
        serve(p) == [serve |-> TRUE, path |-> p, err |-> NoError]
    IN  IF st.err # "" THEN throw(SysError(st.err))
        ELSE IF IsDirectory(st)
        THEN IF options.index # Empty
             THEN serve(PathJoin(absolutePath, options.index))
             ELSE throw(HttpError(404))
        ELSE IF IsDotfile(absolutePath) /\ options.dotfiles = "deny"
        THEN throw(HttpError(403))
        ELSE IF IsDotfile(absolutePath)
        THEN throw(HttpError(404))
        ELSE serve(absolutePath)

\* Variant: a directory is answered 404 whatever the index option
ResolveWithoutIndex(st, absolutePath, options) ==
    LET throw(e) == [serve |-> FALSE, path |-> absolutePath, err |-> e]
        serve(p) == [serve |-> TRUE, path |-> p, err |-> NoError]
    IN  IF st.err # "" THEN throw(SysError(st.err))
        ELSE IF IsDirectory(st) THEN throw(HttpError(404))
        ELSE IF IsDotfile(absolutePath) /\ options.dotfiles = "deny"
        THEN throw(HttpError(403))
        ELSE IF IsDotfile(absolutePath) /\ options.dotfiles = "ignore"
        THEN throw(HttpError(404))
        ELSE serve(absolutePath)

\* What the try block does with the stat of absolutePath, before it calls
\* #serveStaticFile: the path to serve, or the error it throws
Resolve(st, absolutePath, options) ==
    LET throw(e) == [serve |-> FALSE, path |-> absolutePath, err |-> e]
        serve(p) == [serve |-> TRUE, path |-> p, err |-> NoError]
    IN  IF st.err # "" THEN throw(SysError(st.err))
        ELSE IF IsDirectory(st)
        THEN IF options.index # Empty
             THEN serve(PathJoin(absolutePath, options.index))
             ELSE throw(HttpError(404))
        ELSE IF IsDotfile(absolutePath) /\ options.dotfiles = "deny"
        THEN throw(HttpError(403))
        ELSE IF IsDotfile(absolutePath) /\ options.dotfiles = "ignore"
        THEN throw(HttpError(404))
        ELSE serve(absolutePath)

\* The loop from its current position up to the next await: no further
\* match returns false, a failed traversal guard throws 403, otherwise the
\* stat of absolutePath is issued
HandleStaticFiles ==
    /\ pc = "scan"
    /\ LET k == NextMatch(staticPaths, req.path, mountIdx)
       IN  IF k = 0
           THEN /\ staticServed' = "false"
                /\ pc' = "returned"
                /\ UNCHANGED <<mountIdx, target, thrown, statLog>>
           ELSE LET absolutePath == AbsolutePath(staticPaths[k], req.path)
                IN  /\ mountIdx' = k
                    /\ IF TraversalCheckPasses(absolutePath, staticPaths[k].dirPath)
                       THEN /\ target' = absolutePath
                            /\ statLog' = Append(statLog, [mount |-> k, path |-> absolutePath])
                            /\ pc' = "stat"
                            /\ UNCHANGED thrown
                       ELSE /\ thrown' = HttpError(403)
                            /\ pc' = "threw"
                            /\ UNCHANGED <<target, statLog>>
                    /\ UNCHANGED staticServed
    /\ UNCHANGED <<staticPaths, calls, configError, fs, req, res, passedOn, stats,
                   dirStats, previous, helper>>

\* The stat of absolutePath settles: directory index, dotfile policy, catch
StatSettled ==
    /\ pc = "stat"
    /\ dirStats' = Stat(fs, target)
    /\ LET r == Resolve(Stat(fs, target), target, staticPaths[mountIdx].options)
       IN  IF r.serve
           THEN /\ target' = r.path
                /\ statLog' = Append(statLog, [mount |-> mountIdx, path |-> r.path])
                /\ pc' = "serve"
                /\ UNCHANGED <<mountIdx, thrown>>
           ELSE IF IsRecoverable(r.err)
           THEN /\ mountIdx' = mountIdx + 1
                /\ pc' = "scan"
                /\ UNCHANGED <<target, thrown, statLog>>
           ELSE /\ thrown' = r.err
                /\ pc' = "threw"
                /\ UNCHANGED <<mountIdx, target, statLog>>
    /\ UNCHANGED <<staticPaths, calls, configError, fs, req, res, staticServed,
                   passedOn, stats, previous, helper>>

\* Variant: Content-Length is taken from the stat of line 139 when that stat
\* found a file
ServeSettledWithFirstStat ==
    /\ pc = "serve"
    /\ LET r == ServeStaticFile(req, res, target, staticPaths[mountIdx].options, fs)
           length == IF IsFile(dirStats) /\ r.res.headers["Content-Length"] # Empty
                     THEN NatStr(dirStats.size)
                     ELSE r.res.headers["Content-Length"]
       IN  /\ res' = SetHeader(r.res, "Content-Length", length)
           /\ stats' = r.stats
           /\ IF r.thrown = NoError
              THEN /\ staticServed' = "undefined"
                   /\ pc' = "returned"
                   /\ UNCHANGED <<mountIdx, thrown>>
              ELSE IF IsRecoverable(r.thrown)
              THEN /\ mountIdx' = mountIdx + 1
                   /\ pc' = "scan"
                   /\ UNCHANGED <<thrown, staticServed>>
              ELSE /\ thrown' = r.thrown
                   /\ pc' = "threw"
                   /\ UNCHANGED <<mountIdx, staticServed>>
    /\ UNCHANGED <<staticPaths, calls, configError, fs, req, target, passedOn, statLog,
                   dirStats, previous, helper>>

\* The stat inside #serveStaticFile settles and the function runs to its
\* end; it returns undefined, which #handleStaticFiles returns in turn
ServeSettled ==
    /\ pc = "serve"
    /\ LET r == ServeStaticFile(req, res, target, staticPaths[mountIdx].options, fs)
       IN  /\ res' = r.res
           /\ stats' = r.stats
           /\ IF r.thrown = NoError
              THEN /\ staticServed' = "undefined"
                   /\ pc' = "returned"
                   /\ UNCHANGED <<mountIdx, thrown>>
              ELSE IF IsRecoverable(r.thrown)
              THEN /\ mountIdx' = mountIdx + 1
                   /\ pc' = "scan"
                   /\ UNCHANGED <<thrown, staticServed>>
              ELSE /\ thrown' = r.thrown
                   /\ pc' = "threw"
                   /\ UNCHANGED <<mountIdx, staticServed>>
    /\ UNCHANGED <<staticPaths, calls, configError, fs, req, target, passedOn, statLog,
                   dirStats, previous, helper>>

-----------------------------------------------------------------------------
(* listen: the request callback                                            *)

\* if (staticServed) return
Truthy(v) == v \notin {"false", "undefined"}

\* A request arrives: the response is enhanced, the request parsed and
\* #handleStaticFiles is entered
Request(path, inm, range) ==
    /\ pc = "setup"
    /\ req' = [path |-> path, inm |-> inm, range |-> range]
    /\ res' = FreshResponse
    /\ mountIdx' = 1
    /\ pc' = "scan"
    /\ UNCHANGED <<staticPaths, calls, configError, fs, target, thrown,
                   staticServed, passedOn, statLog, stats, dirStats, previous,
                   helper>>

\* #handleStaticFiles has returned: the callback returns when the result is
\* truthy and otherwise goes on to the rest of the request handling
ListenContinue ==
    /\ pc = "returned"
    /\ passedOn' = ~Truthy(staticServed)
    /\ pc' = "done"
    /\ UNCHANGED <<staticPaths, calls, configError, fs, req, mountIdx, target, res,
                   thrown, staticServed, statLog, stats, dirStats, previous,
                   helper>>

\* #handleStaticFiles has thrown: the catch hands the error to #handleError
ListenCatch ==
    /\ pc = "threw"
    /\ pc' = "failed"
    /\ UNCHANGED <<staticPaths, calls, configError, fs, req, mountIdx, target, res,
                   thrown, staticServed, passedOn, statLog, stats, dirStats,
                   previous, helper>>

-----------------------------------------------------------------------------
(* Inputs                                                                  *)

WDir == <<"/", "w">>
VDir == <<"/", "v">>

\* The directory tree the server runs on: /w holds a, .h, d/index.html and
\* the empty directory e; /v holds a (empty), b, .h and .k; /wx, a sibling
\* of /w whose name starts with "w", holds a
InitialFs ==
    LET files == {<<"/", "w", "/", "a">>, <<"/", "w", "/", ".", "h">>,
                  <<"/", "w", "/", "d", "/", "i", "n", "d", "e", "x", ".", "h", "t", "m", "l">>,
                  <<"/", "w", "x", "/", "a">>,
                  <<"/", "v", "/", "a">>, <<"/", "v", "/", "b">>,
                  <<"/", "v", "/", ".", "h">>, <<"/", "v", "/", ".", "k">>}
        dirs == {<<"/">>, WDir, VDir, <<"/", "w", "x">>, <<"/", "w", "/", "d">>,
                 <<"/", "w", "/", "e">>}
    IN  [p \in files \cup dirs |->
            IF p \in dirs THEN DirNode
            ELSE IF p = <<"/", "v", "/", "a">> THEN FileNode(0, 1)
            ELSE IF p = <<"/", "w", "x", "/", "a">> THEN FileNode(1, 2)
            ELSE FileNode(2, 1)]

\* The arguments of the successful and of the rejected static() calls:
\*   static('/s', '/w')
\*   static('/s/', '/v/', {dotfiles: 'allow', etag: false, maxAge: 2500})
\*   static('/s', 'v', {dotfiles: 'deny'})
\*   static('/s/', '/w', {index: false, dotfiles: 'allow'})
\*   static('', '/w') and static('/s', '')
MountInputs ==
    {<<<<"/", "s">>, WDir, NoOptions>>,
     <<<<"/", "s", "/">>, <<"/", "v", "/">>,
       Options({"dotfiles", "etag", "maxAge"}, Empty, "allow", FALSE, 2500)>>,
     <<<<"/", "s">>, <<"v">>, Options({"dotfiles"}, Empty, "deny", TRUE, 0)>>,
     <<<<"/", "s", "/">>, WDir, Options({"index", "dotfiles"}, Empty, "allow", TRUE, 0)>>,
     <<Empty, WDir, NoOptions>>,
     <<<<"/", "s">>, Empty, NoOptions>>}


\* /s/a /s/b /s/.h /s/.k /s/d /s/e /s/ /s/a/b /s/../wx/a /s/../v/b /t/a
RequestPaths ==
    {<<"/", "s", "/", "a">>, <<"/", "s", "/", "b">>, <<"/", "s", "/", ".", "h">>,
     <<"/", "s", "/", ".", "k">>,
     <<"/", "s", "/", "d">>, <<"/", "s", "/", "e">>, <<"/", "s", "/">>,
     <<"/", "s", "/", "a", "/", "b">>,
     <<"/", "s", "/", ".", ".", "/", "w", "x", "/", "a">>,
     <<"/", "s", "/", ".", ".", "/", "v", "/", "b">>,
     <<"/", "t", "/", "a">>}

IfNoneMatchValues == {Empty, ETagOf(2, 1)}

\* The Range header values: none, 'bytes=0', '0-0' and 'bytes=<a>-<b>' for
\* a and b among '', 'x', '0', '1', '2'
RangeAtoms == {Empty, <<"x">>, <<"0">>, <<"1">>, <<"2">>}

RangeValues ==
    {Empty, <<"b", "y", "t", "e", "s", "=", "0">>, <<"0", "-", "0">>}
    \cup {<<"b", "y", "t", "e", "s", "=">> \o a \o <<"-">> \o b : a \in RangeAtoms, b \in RangeAtoms}

-----------------------------------------------------------------------------
(* The specification                                                       *)

Init ==
    /\ staticPaths = <<>>
    /\ calls = <<>>
    /\ configError = FALSE
    /\ fs = InitialFs
    /\ pc = "setup"
    /\ req = [path |-> Empty, inm |-> Empty, range |-> Empty]
    /\ mountIdx = 1
    /\ target = Empty
    /\ res = FreshResponse
    /\ thrown = NoError
    /\ staticServed = "pending"
    /\ passedOn = FALSE
    /\ statLog = <<>>
    /\ stats = NoStats
    /\ dirStats = NoStats
    /\ previous = NoValidator
    /\ helper = NoHelper

Next ==
    \/ \E m \in MountInputs : Static(m[1], m[2], m[3])
    \/ \E path \in RequestPaths, inm \in IfNoneMatchValues, range \in RangeValues :
           Request(path, inm, range)
    \/ HandleStaticFiles
    \/ StatSettled
    \/ ServeSettled
    \/ ListenContinue
    \/ ListenCatch

Spec == Init /\ [][Next]_vars

-----------------------------------------------------------------------------
(* The server under the options of static(): every option given and        *)
(* omitted, blank arguments, a few requests                                *)

\*   static('/s', '/w')
\*   static('/s/', '/w', {dotfiles: 'ignore', maxAge: 500})
\*   static('/s', '/v', {index: 'a', dotfiles: 'deny'})
\*   static('/s/', '/v', {dotfiles: 'allow', etag: false, maxAge: 2500})
\*   static('/s', '/w', {index: false, dotfiles: 'allow', maxAge: 0})
\*   static(' ', '/w') and static('/s/', ' ')
\*   static('', '/w') and static('/s', '')
OptionInputs ==
    {<<<<"/", "s">>, WDir, NoOptions>>,
     <<<<"/", "s", "/">>, WDir, Options({"dotfiles", "maxAge"}, Empty, "ignore", TRUE, 500)>>,
     <<<<"/", "s">>, VDir, Options({"index", "dotfiles"}, <<"a">>, "deny", TRUE, 0)>>,
     <<<<"/", "s", "/">>, VDir, Options({"dotfiles", "etag", "maxAge"}, Empty, "allow", FALSE, 2500)>>,
     <<<<"/", "s">>, WDir, Options({"index", "dotfiles", "maxAge"}, Empty, "allow", TRUE, 0)>>,
     <<<<" ">>, WDir, NoOptions>>,
     <<<<"/", "s", "/">>, <<" ">>, NoOptions>>,
     <<Empty, WDir, NoOptions>>,
     <<<<"/", "s">>, Empty, NoOptions>>}

\* /s/a /s/.h /s/.k /s/d /s/e /s/
OptionPaths == {<<"/", "s", "/", "a">>, <<"/", "s", "/", ".", "k">>, <<"/", "s", "/", ".", "h">>, <<"/", "s", "/", "d">>, <<"/", "s", "/", "e">>, <<"/", "s", "/">>}

\* No Range header, 'bytes=0-0' and 'bytes=5-'
OptionRanges == {Empty, <<"b", "y", "t", "e", "s", "=", "0", "-", "0">>,
                 <<"b", "y", "t", "e", "s", "=", "5", "-">>}

NextMounts ==
    \/ \E m \in OptionInputs : Static(m[1], m[2], m[3])
    \/ \E path \in OptionPaths, inm \in IfNoneMatchValues, range \in OptionRanges :
           Request(path, inm, range)
    \/ HandleStaticFiles
    \/ StatSettled
    \/ ServeSettled
    \/ ListenContinue
    \/ ListenCatch

SpecMounts == Init /\ [][NextMounts]_vars

-----------------------------------------------------------------------------
(* The server under a changing file system: other processes write, remove  *)
(* and replace the file /w/a while requests follow one another             *)

ChangingFile == <<"/", "w", "/", "a">>

ChangedSizes == {1, 12}
ChangedMtimes == {3, 23}

AllButFs == <<staticPaths, calls, configError, pc, req, mountIdx, target, res,
              thrown, staticServed, passedOn, statLog, stats, dirStats,
              previous, helper>>

\* Another process writes the file: it is a regular file of the given size
\* and modification time afterwards
Write(size, mtime) ==
    /\ fs' = [p \in DOMAIN fs \cup {ChangingFile} |->
                 IF p = ChangingFile THEN FileNode(size, mtime) ELSE fs[p]]
    /\ UNCHANGED AllButFs

\* Another process removes the file
Unlink ==
    /\ ChangingFile \in DOMAIN fs
    /\ fs' = [p \in DOMAIN fs \ {ChangingFile} |-> fs[p]]
    /\ UNCHANGED AllButFs

\* Another process puts a directory in the place of the file
ReplaceByDirectory ==
    /\ fs' = [p \in DOMAIN fs \cup {ChangingFile} |->
                 IF p = ChangingFile THEN DirNode ELSE fs[p]]
    /\ UNCHANGED AllButFs

\* The request callback is entered for the following request; the client
\* keeps the validator of the response it has just been given
NextRequest ==
    /\ pc \in {"done", "failed"}
    /\ previous' = IF res.headers["ETag"] # Empty
                   THEN [etag |-> res.headers["ETag"], size |-> stats.size,
                         mtime |-> stats.mtime]
                   ELSE previous
    /\ pc' = "setup"
    /\ req' = [path |-> Empty, inm |-> Empty, range |-> Empty]
    /\ res' = FreshResponse
    /\ mountIdx' = 1
    /\ target' = Empty
    /\ thrown' = NoError
    /\ staticServed' = "pending"
    /\ passedOn' = FALSE
    /\ statLog' = <<>>
    /\ stats' = NoStats
    /\ dirStats' = NoStats
    /\ UNCHANGED <<staticPaths, calls, configError, fs, helper>>

\* static('/s', '/w') and static('/s/', '/w', {index: false, dotfiles: 'allow'})
ChangingMounts ==
    {<<<<"/", "s">>, WDir, NoOptions>>,
     <<<<"/", "s", "/">>, WDir, Options({"index", "dotfiles"}, Empty, "allow", TRUE, 0)>>}

ChangingIfNoneMatch == {Empty, ETagOf(1, 23)}

\* No Range header, 'bytes=0-0' and 'bytes=1-'
ChangingRanges == {Empty, <<"b", "y", "t", "e", "s", "=", "0", "-", "0">>, <<"b", "y", "t", "e", "s", "=", "1", "-">>}

NextChanging ==
    \/ \E m \in ChangingMounts : Static(m[1], m[2], m[3])
    \/ \E inm \in ChangingIfNoneMatch, range \in ChangingRanges :
           Request(<<"/", "s", "/", "a">>, inm, range)
    \/ HandleStaticFiles
    \/ StatSettled
    \/ ServeSettled
    \/ ListenContinue
    \/ ListenCatch
    \/ \E size \in ChangedSizes, mtime \in ChangedMtimes : Write(size, mtime)
    \/ Unlink
    \/ ReplaceByDirectory
    \/ NextRequest

SpecChanging == Init /\ [][NextChanging]_vars

-----------------------------------------------------------------------------
(* res.sendFile and res.download, installed by #enhanceResponse and called *)
(* by the handler the request is passed on to                              *)

\* `attachment; filename="${filename || path.basename(filePath)}"`
ContentDisposition(filePath, filename) ==
    <<"a", "t", "t", "a", "c", "h", "m", "e", "n", "t", ";", " ", "f", "i", "l", "e", "n", "a", "m", "e", "=">> \o <<"\"">>
        \o (IF filename # Empty THEN filename ELSE Basename(filePath)) \o <<"\"">>

\* The catch of both helpers: new HttpError(err.status || 500, err.message)
WrapError(err) == HttpError(IF err.status # 0 THEN err.status ELSE 500)

\* The options #serveStaticFile sees from a helper: etag and maxAge are
\* undefined unless sendFile's caller gives them
HelperOptions == [index |-> Empty, dotfiles |-> "", etag |-> FALSE, maxAge |-> 0]

\* The identifier req in the body of the helpers is no parameter and no
\* local of #enhanceResponse: evaluating it throws ReferenceError unless a
\* binding of the enclosing module supplies it
ReferenceError == [kind |-> "ReferenceError", status |-> 0, code |-> ""]

HelperVars == <<staticPaths, calls, configError, fs, req, mountIdx, target,
                staticServed, passedOn, statLog, dirStats, previous>>

\* res.sendFile(filePath), options left out, up to its await: path.resolve, then the argument
\* list of the call of #serveStaticFile is evaluated
SendFile(filePath, reqBound) ==
    /\ pc = "done" /\ passedOn /\ helper = NoHelper
    /\ helper' = [name |-> "sendFile", path |-> PathResolve(filePath),
                  given |-> filePath, filename |-> Empty, reqBound |-> reqBound]
    /\ IF reqBound
       THEN pc' = "sendFile" /\ UNCHANGED thrown
       ELSE pc' = "threw" /\ thrown' = WrapError(ReferenceError)
    /\ UNCHANGED <<res, stats>>
    /\ UNCHANGED HelperVars

\* The stat of #serveStaticFile settles and res.sendFile ends
SendFileSettled ==
    /\ pc = "sendFile"
    /\ LET r == ServeStaticFile(req, res, helper.path, HelperOptions, fs)
       IN  /\ res' = r.res
           /\ stats' = r.stats
           /\ IF r.thrown = NoError
              THEN pc' = "handled" /\ UNCHANGED thrown
              ELSE pc' = "threw" /\ thrown' = WrapError(r.thrown)
    /\ UNCHANGED helper
    /\ UNCHANGED HelperVars

\* res.download(filePath, filename) up to its first await, the stat of
\* line 112
Download(filePath, filename, reqBound) ==
    /\ pc = "done" /\ passedOn /\ helper = NoHelper
    /\ helper' = [name |-> "download", path |-> PathResolve(filePath),
                  given |-> filePath, filename |-> filename, reqBound |-> reqBound]
    /\ pc' = "download"
    /\ UNCHANGED <<res, stats, thrown>>
    /\ UNCHANGED HelperVars

\* The stat of line 112 settles: a failed stat and a path that is no file
\* end in the catch, else Content-Disposition is set and the argument list
\* of the call of #serveStaticFile is evaluated
DownloadStatSettled ==
    /\ pc = "download"
    /\ LET st == Stat(fs, helper.path)
       IN  IF st.err # ""
           THEN pc' = "threw" /\ thrown' = WrapError(SysError(st.err)) /\ UNCHANGED res
           ELSE IF ~IsFile(st)
           THEN pc' = "threw" /\ thrown' = WrapError(HttpError(404)) /\ UNCHANGED res
           ELSE /\ res' = SetHeader(res, "Content-Disposition",
                                    ContentDisposition(helper.given, helper.filename))
                /\ IF helper.reqBound
                   THEN pc' = "downloadServe" /\ UNCHANGED thrown
                   ELSE pc' = "threw" /\ thrown' = WrapError(ReferenceError)
    /\ UNCHANGED <<helper, stats>>
    /\ UNCHANGED HelperVars

\* The stat of #serveStaticFile settles and res.download ends
DownloadServeSettled ==
    /\ pc = "downloadServe"
    /\ LET r == ServeStaticFile(req, res, helper.path, HelperOptions, fs)
       IN  /\ res' = r.res
           /\ stats' = r.stats
           /\ IF r.thrown = NoError
              THEN pc' = "handled" /\ UNCHANGED thrown
              ELSE pc' = "threw" /\ thrown' = WrapError(r.thrown)
    /\ UNCHANGED helper
    /\ UNCHANGED HelperVars

\* /w/a, /w/zz (missing), /w/d (a directory), /w/a/b (below a file) and the
\* relative w/a
HelperPaths == {<<"/", "w", "/", "a">>, <<"/", "w", "/", "z", "z">>, <<"/", "w", "/", "d">>, <<"/", "w", "/", "a", "/", "b">>, <<"w", "/", "a">>}

HelperFilenames == {Empty, <<"n">>}

\* /t/a (no mount matches) and /s/a
HelperRequestPaths == {<<"/", "t", "/", "a">>, <<"/", "s", "/", "a">>}

NextHelpers ==
    \/ Static(<<"/", "s">>, WDir, NoOptions)
    \/ \E path \in HelperRequestPaths, inm \in IfNoneMatchValues, range \in OptionRanges :
           Request(path, inm, range)
    \/ HandleStaticFiles
    \/ StatSettled
    \/ ServeSettled
    \/ ListenContinue
    \/ ListenCatch
    \/ \E filePath \in HelperPaths, reqBound \in BOOLEAN : SendFile(filePath, reqBound)
    \/ SendFileSettled
    \/ \E filePath \in HelperPaths, filename \in HelperFilenames, reqBound \in BOOLEAN :
           Download(filePath, filename, reqBound)
    \/ DownloadStatSettled
    \/ DownloadServeSettled

SpecHelpers == Init /\ [][NextHelpers]_vars

-----------------------------------------------------------------------------
(* Vocabulary of the properties                                            *)

Finished == pc \in {"done", "failed"}

Mounts == 1..Len(staticPaths)

\* The mounts the loop has visited whose prefix the request path starts with
Visited ==
    {k \in Mounts : /\ MountMatches(staticPaths[k], req.path)
                    /\ \/ k < mountIdx
                       \/ k = mountIdx /\ pc \notin {"setup", "scan"}}

PathAt(k) == AbsolutePath(staticPaths[k], req.path)
RootOf(k) == staticPaths[k].dirPath
OptionsOf(k) == staticPaths[k].options

\* Segment-wise containment: p is root or lies below it
IsWithin(root, p) ==
    LET r == NormalizeSegments(Split(root, "/"), <<>>, FALSE)
        q == NormalizeSegments(Split(p, "/"), <<>>, FALSE)
    IN  Len(r) <= Len(q) /\ SubSeq(q, 1, Len(r)) = r

\* The stat calls issued for mount k
StatsFor(k) == {n \in 1..Len(statLog) : statLog[n].mount = k}

\* Mount k, taken alone, has a regular file for the request path that its
\* directory index and dotfile rules let through
HoldsFileAt(k) ==
    /\ MountMatches(staticPaths[k], req.path)
    /\ IsWithin(RootOf(k), PathAt(k))
    /\ LET r == Resolve(Stat(fs, PathAt(k)), PathAt(k), OptionsOf(k))
       IN  r.serve /\ IsFile(Stat(fs, r.path))

-----------------------------------------------------------------------------
(* C1 *)

\* C1 (as claimed): whenever the loop visits a matching mount for which the
\* joined, normalised path is neither the root directory nor below it,
\* segment by segment, the request ends with 403 and no stat is issued and
\* nothing is streamed for that mount.
C1_EscapeAlwaysForbidden ==
    \A k \in Visited :
        ~IsWithin(RootOf(k), PathAt(k)) =>
            /\ StatsFor(k) = {}
            /\ ~res.stream.open
            /\ Finished => thrown = HttpError(403)

-----------------------------------------------------------------------------
(* C2 *)

\* Mount k holds a regular file at the request path, inside its root
FileUnder(k) ==
    /\ MountMatches(staticPaths[k], req.path)
    /\ IsWithin(RootOf(k), PathAt(k))
    /\ IsFile(Stat(fs, PathAt(k)))

\* The response is 200 with the whole of the file at p: Content-Length is
\* its stat size and the stream is opened on it without a window
FullResponse(p) ==
    /\ thrown = NoError
    /\ res.status = 200
    /\ res.headers["Content-Length"] = NatStr(Stat(fs, p).size)
    /\ res.stream.open /\ ~res.stream.ranged /\ res.stream.path = p

PlainRequest == req.inm = Empty /\ req.range = Empty

\* C2 (as claimed): a request without If-None-Match and Range for a file
\* under any registered mount's root ends with 200, Content-Length equal to
\* the file's size and the whole file streamed.
C2_AnyFileServed ==
    (Finished /\ PlainRequest) =>
        \A k \in Mounts : FileUnder(k) => FullResponse(PathAt(k))

\* Every matching mount registered before k finds nothing at the path: the
\* path stays inside its root and its stat reports ENOENT
EarlierMountsMiss(k) ==
    \A j \in 1..(k - 1) :
        MountMatches(staticPaths[j], req.path) =>
            /\ TraversalCheckPasses(PathAt(j), RootOf(j))
            /\ Stat(fs, PathAt(j)).err = "ENOENT"

\* The dotfile policy of mount k lets the file name through
NotHidden(k) == IsDotfile(PathAt(k)) => OptionsOf(k).dotfiles = "allow"

\* C2 (amended): the same, for a file the mount's dotfile policy does not
\* hide (its name does not start with '.', or the policy is 'allow') and
\* for which every earlier-registered matching mount finds nothing at the
\* path.
C2_VisibleFileServed ==
    (Finished /\ PlainRequest) =>
        \A k \in Mounts :
            (FileUnder(k) /\ NotHidden(k) /\ EarlierMountsMiss(k)) =>
                FullResponse(PathAt(k))

C2_Witness ==
    /\ Finished /\ PlainRequest
    /\ \E k \in Mounts :
           /\ FileUnder(k) /\ NotHidden(k) /\ EarlierMountsMiss(k)
           /\ k > 1
           /\ FullResponse(PathAt(k))

-----------------------------------------------------------------------------
(* C3 *)

\* C3 (as claimed): a 404 raised while a matching mount is resolved never
\* ends the request while a later mount holds a servable file for the path.
C3_NotFoundFallsThrough ==
    (Finished /\ thrown = HttpError(404)) =>
        ~\E j \in Mounts : j > mountIdx /\ HoldsFileAt(j)

-----------------------------------------------------------------------------
(* C4 *)

\* Two mounts match the path: it is missing under the first and a regular
\* file inside the root of the second
MissingThenPresent ==
    /\ Len(staticPaths) = 2
    /\ MountMatches(staticPaths[1], req.path)
    /\ IsWithin(RootOf(1), PathAt(1))
    /\ Stat(fs, PathAt(1)).err = "ENOENT"
    /\ FileUnder(2)

\* C4 (as claimed): such a request falls through the first mount and is
\* served with 200 from the second mount's file.
C4_FallsThroughToSecond ==
    (Finished /\ MissingThenPresent) =>
        /\ thrown = NoError
        /\ res.status = 200
        /\ res.stream.open /\ res.stream.path = PathAt(2)

\* The conditional check of mount k would answer 304 for the file at p
AnsweredNotModified(k, p) ==
    OptionsOf(k).etag /\ req.inm = ETagOf(Stat(fs, p).size, Stat(fs, p).mtime)

\* C4 (amended): the same, when the second mount's dotfile policy does not
\* hide the file and the request carries no Range header and no
\* If-None-Match equal to the file's validator.
C4_FallsThroughToVisibleFile ==
    (/\ Finished /\ MissingThenPresent
     /\ NotHidden(2)
     /\ req.range = Empty
     /\ ~AnsweredNotModified(2, PathAt(2))) =>
        /\ thrown = NoError
        /\ res.status = 200
        /\ res.stream.open /\ res.stream.path = PathAt(2)
        /\ \E n \in StatsFor(1) : statLog[n].path = PathAt(1)

C4_Witness ==
    /\ Finished /\ MissingThenPresent
    /\ NotHidden(2) /\ req.range = Empty /\ ~AnsweredNotModified(2, PathAt(2))
    /\ StatsFor(1) # {}
    /\ res.status = 200 /\ res.stream.open /\ res.stream.path = PathAt(2)

-----------------------------------------------------------------------------
(* C5 *)

\* Mount k, once stat'd, raises Forbidden for the request path: the path
\* fails the traversal guard, or names a dotfile under the 'deny' policy
ForbiddenAt(k) ==
    \/ ~TraversalCheckPasses(PathAt(k), RootOf(k))
    \/ Resolve(Stat(fs, PathAt(k)), PathAt(k), OptionsOf(k)).err = HttpError(403)

\* C5: a Forbidden failure of a visited mount is terminal.  The loop never
\* moves past such a mount; once its stat has settled the error thrown is
\* the 403, no stat is issued for a later mount, nothing is streamed and
\* nothing is returned.
C5_ForbiddenIsTerminal ==
    \A k \in Visited :
        ForbiddenAt(k) =>
            /\ k = mountIdx
            /\ \A n \in 1..Len(statLog) : statLog[n].mount <= k
            /\ ~res.stream.open /\ ~res.ended
            /\ staticServed = "pending"
            /\ pc # "stat" => (thrown = HttpError(403) /\ pc \in {"threw", "failed"})

C5_Witness ==
    /\ pc = "failed" /\ thrown = HttpError(403)
    /\ ForbiddenAt(mountIdx)
    /\ \E j \in Mounts : j > mountIdx /\ HoldsFileAt(j)

-----------------------------------------------------------------------------
(* C6 *)

\* C6 (as claimed): the registry holds exactly one mount per successful
\* static() call, in call order; no call replaces or removes an earlier
\* mount.
C6_OneMountPerCall == staticPaths = calls

-----------------------------------------------------------------------------
(* C7 *)

\* #serveStaticFile has run on a regular file
ServedFile == stats.err = "" /\ IsFile(stats)

\* C7 (as claimed): whenever #serveStaticFile has set status 206, the
\* offsets it took from the Range header are integers with
\* 0 <= start <= end < size.
C7_PartialContentHasValidOffsets ==
    res.status = 206 =>
        LET start == RangeStart(req.range)
            end == RangeEnd(req.range, stats.size)
        IN  /\ ~start.nan /\ ~end.nan
            /\ 0 <= start.v /\ start.v <= end.v /\ end.v < stats.size

-----------------------------------------------------------------------------
(* C8 *)

BytesUnit == <<"b", "y", "t", "e", "s", "=">>

\* The Range header 'bytes=<s>-<e>'
ClosedRange(s, e) == BytesUnit \o NatStr(s) \o <<"-">> \o NatStr(e)

\* The Range header 'bytes=<s>-'
OpenRange(s) == BytesUnit \o NatStr(s) \o <<"-">>

\* The response is 206 for the window [s, e] of a file of the given size
PartialResponse(s, e, size) ==
    /\ thrown = NoError
    /\ res.status = 206
    /\ res.headers["Content-Range"] =
           <<"b", "y", "t", "e", "s", " ">> \o NatStr(s) \o <<"-">> \o NatStr(e) \o <<"/">> \o NatStr(size)
    /\ res.headers["Accept-Ranges"] = <<"b", "y", "t", "e", "s">>
    /\ res.headers["Content-Length"] = NatStr(e - s + 1)
    /\ res.stream = [open |-> TRUE, path |-> target, ranged |-> TRUE,
                     start |-> Num(s), end |-> Num(e)]

\* The window a satisfiable Range header asks for, as a set of <<s, e>>
RequestedWindows ==
    {w \in (0..(stats.size - 1)) \X (0..(stats.size - 1)) :
        /\ w[1] <= w[2]
        /\ \/ req.range = ClosedRange(w[1], w[2])
           \/ req.range = OpenRange(w[1]) /\ w[2] = stats.size - 1}

\* C8 (as claimed): a file served with a Range header 'bytes=<s>-<e>',
\* 0 <= s <= e < size, or 'bytes=<s>-', s < size, is answered 206 with the
\* Content-Range, Accept-Ranges and Content-Length of the window and the
\* stream opened on exactly that window.
C8_SatisfiableRangeIsPartial ==
    ServedFile => \A w \in RequestedWindows : PartialResponse(w[1], w[2], stats.size)

\* The conditional check answered the request: ETag is enabled and
\* If-None-Match equals the validator of the stat taken
NotModified ==
    /\ staticPaths[mountIdx].options.etag
    /\ req.inm = ETagOf(stats.size, stats.mtime)

\* C8 (amended): the same, unless ETag is enabled and If-None-Match equals
\* the file's validator (the request is then answered 304 before the Range
\* header is read).
C8_SatisfiableRangeIsPartialUnlessFresh ==
    (ServedFile /\ ~NotModified) =>
        \A w \in RequestedWindows : PartialResponse(w[1], w[2], stats.size)

C8_Witness ==
    /\ ServedFile /\ ~NotModified
    /\ req.range = ClosedRange(0, 0)
    /\ PartialResponse(0, 0, stats.size)
    /\ res.headers["Content-Length"] = <<"1">>

C8_WitnessOpenEnded ==
    /\ ServedFile /\ ~NotModified
    /\ req.range = OpenRange(1)
    /\ PartialResponse(1, stats.size - 1, stats.size)

-----------------------------------------------------------------------------
(* C9 *)

\* The decimal numerals of the numbers from n up to 9
NumeralsFrom(n) == {NatStr(m) : m \in n..9}

\* The Range header names a start at or past the size, or an explicit end
\* at or past the size
OutOfBounds(size) ==
    \E a \in RangeAtoms, b \in RangeAtoms :
        /\ req.range = BytesUnit \o a \o <<"-">> \o b
        /\ a \in NumeralsFrom(size) \/ b \in NumeralsFrom(size)

\* The response is 416 with 'bytes */<size>', an empty body and no stream
UnsatisfiableResponse(size) ==
    /\ thrown = NoError
    /\ res.status = 416
    /\ res.headers["Content-Range"] = <<"b", "y", "t", "e", "s", " ", "*", "/">> \o NatStr(size)
    /\ res.ended /\ ~res.stream.open

\* C9 (as claimed): a file served with a Range header whose start, or whose
\* explicit end, is at or past the file size is answered 416 with
\* Content-Range 'bytes */<size>', an empty body and no read stream.
C9_OutOfBoundsIsUnsatisfiable ==
    (ServedFile /\ OutOfBounds(stats.size)) => UnsatisfiableResponse(stats.size)

\* C9 (amended): the same, unless ETag is enabled and If-None-Match equals
\* the file's validator (the request is then answered 304 before the Range
\* header is read).
C9_OutOfBoundsIsUnsatisfiableUnlessFresh ==
    (ServedFile /\ OutOfBounds(stats.size) /\ ~NotModified) =>
        UnsatisfiableResponse(stats.size)

C9_Witness ==
    /\ ServedFile /\ ~NotModified /\ stats.size > 0
    /\ req.range = OpenRange(stats.size)
    /\ UnsatisfiableResponse(stats.size)

-----------------------------------------------------------------------------
(* C10 *)

\* C10: when ETag is enabled and If-None-Match equals the validator of the
\* file's size and mtime, #serveStaticFile answers 304 with an empty body,
\* no stream and no header but ETag, whatever the Range header.
C10_FreshIsNotModified ==
    (ServedFile /\ NotModified) =>
        /\ stats = Stat(fs, target)
        /\ thrown = NoError
        /\ res.status = 304
        /\ res.ended /\ ~res.stream.open
        /\ res.headers["ETag"] = req.inm
        /\ \A h \in HeaderNames \ {"ETag"} : res.headers[h] = Empty

C10_Witness ==
    /\ ServedFile /\ NotModified
    /\ OutOfBounds(stats.size)
    /\ res.status = 304

C10_WitnessSatisfiableRange ==
    /\ ServedFile /\ NotModified
    /\ RequestedWindows # {}
    /\ res.status = 304

-----------------------------------------------------------------------------
(* C11 *)

\* The response carries a validator and the client holds the validator of
\* an earlier response
TwoValidators == res.headers["ETag"] # Empty /\ previous # NoValidator

\* C11: the validators of two responses are the same string if and only if
\* the stats they were computed from agree in size and in modification
\* time, whatever happened to the file in between.
C11_ValidatorIsInjective ==
    TwoValidators =>
        (res.headers["ETag"] = previous.etag
            <=> (stats.size = previous.size /\ stats.mtime = previous.mtime))

\* Sizes 1 and 12 with times 23 and 3: the digits of the two pairs agree
C11_Witness ==
    /\ TwoValidators
    /\ previous.size = 1 /\ previous.mtime = 23
    /\ stats.size = 12 /\ stats.mtime = 3
    /\ res.headers["ETag"] # previous.etag

C11_WitnessUnchanged ==
    /\ TwoValidators
    /\ previous.size = stats.size /\ previous.mtime = stats.mtime
    /\ res.headers["ETag"] = previous.etag
    /\ res.status = 200

-----------------------------------------------------------------------------
(* C12 *)

\* The static() calls whose entry is the mount at position k, with the
\* dotfiles policy the call asks for ('ignore' when the option is omitted)
PoliciesOf(k) ==
    {IF "dotfiles" \in m[3].given THEN m[3].dotfiles ELSE "ignore" :
        m \in {n \in OptionInputs :
                  /\ ~ArgumentsMissing(n[1], n[2])
                  /\ staticPaths[k] = MountEntry(n[1], n[2], n[3])}}

\* The stat the loop issued for the request path under mount k has settled
StatDone(k) ==
    /\ k \in Visited
    /\ StatsFor(k) # {}
    /\ k < mountIdx \/ pc # "stat"

\* The loop has stat'd the request path for mount k and found a regular
\* file whose final segment starts with '.'
DotfileAt(k) ==
    /\ StatDone(k)
    /\ IsFile(Stat(fs, PathAt(k)))
    /\ StartsWith(Basename(PathAt(k)), <<".">>)

\* The request ends with the HttpError of the given status, nothing streamed
EndsWith(status) ==
    /\ pc \in {"threw", "failed"}
    /\ thrown = HttpError(status)
    /\ ~res.stream.open /\ ~res.ended

\* The request ends with 200 and the whole file at p streamed
EndsServing(p) ==
    /\ pc \in {"returned", "done"}
    /\ thrown = NoError
    /\ res.status = 200
    /\ res.stream.open /\ ~res.stream.ranged /\ res.stream.path = p

\* C12 (as claimed): a dotfile found through a mount ends 404 under
\* 'ignore' (the default), 403 under 'deny' and is served with 200 under
\* 'allow'.
C12_DotfilePolicy ==
    \A k \in Mounts :
        (DotfileAt(k) /\ pc # "serve") =>
            /\ "ignore" \in PoliciesOf(k) => EndsWith(404)
            /\ "deny" \in PoliciesOf(k) => EndsWith(403)
            /\ "allow" \in PoliciesOf(k) => EndsServing(PathAt(k))

\* C12 (amended): the same, the 200 under 'allow' being for a request with
\* no Range header and no If-None-Match equal to the file's validator.
C12_DotfilePolicyPlainRequest ==
    \A k \in Mounts :
        (DotfileAt(k) /\ pc # "serve") =>
            /\ "ignore" \in PoliciesOf(k) => EndsWith(404)
            /\ "deny" \in PoliciesOf(k) => EndsWith(403)
            /\ ("allow" \in PoliciesOf(k) /\ req.range = Empty
                    /\ ~AnsweredNotModified(k, PathAt(k)))
                   => EndsServing(PathAt(k))

C12_Witness ==
    /\ Finished
    /\ \E k \in Mounts :
           /\ DotfileAt(k)
           /\ PoliciesOf(k) = {"ignore"}
           /\ staticPaths[k] = MountEntry(<<"/", "s">>, WDir, NoOptions)
           /\ EndsWith(404)

C12_WitnessDeny ==
    Finished /\ \E k \in Mounts : DotfileAt(k) /\ PoliciesOf(k) = {"deny"} /\ EndsWith(403)

C12_WitnessAllow ==
    /\ Finished
    /\ \E k \in Mounts :
           /\ DotfileAt(k) /\ PoliciesOf(k) = {"allow"}
           /\ req.range = Empty
           /\ EndsServing(PathAt(k))

-----------------------------------------------------------------------------
(* C13 *)

\* The index file names the static() calls behind mount k ask for: the
\* name given, 'index.html' when the option is omitted, Empty when the
\* option is given as false or ''
IndexNamesOf(k) ==
    {IF "index" \in m[3].given THEN m[3].index ELSE <<"i", "n", "d", "e", "x", ".", "h", "t", "m", "l">> :
        m \in {n \in OptionInputs :
                  /\ ~ArgumentsMissing(n[1], n[2])
                  /\ staticPaths[k] = MountEntry(n[1], n[2], n[3])}}

\* The loop has stat'd the request path for mount k and found a directory
DirectoryAt(k) == StatDone(k) /\ IsDirectory(Stat(fs, PathAt(k)))

\* The file of the given name in the directory the request names
IndexFile(k, name) == StripTrailing(PathAt(k)) \o <<"/">> \o name

\* C13 (as claimed): a request path that stats as a directory ends 404 with
\* nothing streamed when the mount has no index file name, and is served
\* with 200 and the index file's content when the mount has one and that
\* file exists in the directory.
C13_DirectoryIndex ==
    \A k \in Mounts :
        (DirectoryAt(k) /\ pc # "serve") =>
            \A name \in IndexNamesOf(k) :
                /\ name = Empty => EndsWith(404)
                /\ (name # Empty /\ IsFile(Stat(fs, IndexFile(k, name))))
                       => EndsServing(IndexFile(k, name))

\* C13 (amended): the same, the 200 being for a request with no Range
\* header and no If-None-Match equal to the index file's validator.
C13_DirectoryIndexPlainRequest ==
    \A k \in Mounts :
        (DirectoryAt(k) /\ pc # "serve") =>
            \A name \in IndexNamesOf(k) :
                /\ name = Empty => EndsWith(404)
                /\ (/\ name # Empty /\ IsFile(Stat(fs, IndexFile(k, name)))
                    /\ req.range = Empty
                    /\ ~AnsweredNotModified(k, IndexFile(k, name)))
                       => EndsServing(IndexFile(k, name))

C13_Witness ==
    /\ Finished
    /\ \E k \in Mounts :
           /\ DirectoryAt(k)
           /\ IndexNamesOf(k) = {<<"a">>}
           /\ EndsServing(<<"/", "v", "/", "a">>)
           /\ res.headers["Content-Length"] = <<"0">>

C13_WitnessDefaultName ==
    /\ Finished
    /\ \E k \in Mounts :
           /\ DirectoryAt(k)
           /\ staticPaths[k] = MountEntry(<<"/", "s">>, WDir, NoOptions)
           /\ EndsServing(<<"/", "w", "/", "d", "/", "i", "n", "d", "e", "x", ".", "h", "t", "m", "l">>)

C13_WitnessNoIndex ==
    Finished /\ \E k \in Mounts : DirectoryAt(k) /\ IndexNamesOf(k) = {Empty} /\ EndsWith(404)

-----------------------------------------------------------------------------
(* C14 *)

\* The argument is missing, the empty string or made of blanks only
IsBlank(s) == \A i \in 1..Len(s) : s[i] = " "

\* C14 (as claimed): a static() call with a blank urlPath or dirPath fails
\* with a configuration error and leaves the registry as it was.
C14_BlankArgumentsRejected ==
    [][\A m \in OptionInputs :
          ((IsBlank(m[1]) \/ IsBlank(m[2])) /\ Static(m[1], m[2], m[3]))
              => (configError' /\ staticPaths' = staticPaths)]_vars

-----------------------------------------------------------------------------
(* C15 *)

\* A call of res.sendFile or res.download has ended by throwing
HelperFailed == helper.name # "none" /\ pc \in {"threw", "failed"}

\* C15 (as claimed): a helper called with a path at which nothing exists
\* fails with status 404, and a helper fails with status 500 only when the
\* stat of the path fails for another reason than 'missing'.
C15_MissingFileIsNotFound ==
    HelperFailed =>
        /\ Stat(fs, helper.path).err = "ENOENT" => thrown = HttpError(404)
        /\ thrown = HttpError(500) => Stat(fs, helper.path).err \notin {"", "ENOENT"}

-----------------------------------------------------------------------------
(* C16 *)

\* #serveStaticFile has written a response for the request
ResponseProduced ==
    /\ thrown = NoError
    /\ res.status \in {200, 206, 304, 416}
    /\ res.ended \/ res.stream.open

\* C16 (as claimed): once #handleStaticFiles has returned after a response
\* was produced, its result is truthy, and the callback does not pass the
\* request on to the rest of the handling.
C16_ServedIsNotPassedOn ==
    ResponseProduced =>
        /\ pc \in {"returned", "done"} => Truthy(staticServed)
        /\ ~passedOn

-----------------------------------------------------------------------------
(* C17 *)

\* C17 (as claimed): in a response written by #serveStaticFile the
\* Content-Length header is the number of body bytes: the size for a 200,
\* end - start + 1 for a 206, and absent or 0 for the empty bodies of 304
\* and 416.
C17_ContentLengthIsBodyLength ==
    (ServedFile /\ ResponseProduced) =>
        LET length == res.headers["Content-Length"]
        IN  /\ res.status = 200 => length = NatStr(stats.size)
            /\ res.status = 206 =>
                   length = NumStr(SpanLength(res.stream.end, res.stream.start))
            /\ res.status \in {304, 416} => length \in {Empty, <<"0">>}

-----------------------------------------------------------------------------
(* C18 *)

\* Every value of the response that depends on the file is the one the
\* stat result st gives: the validator, the Content-Length of a 200 and of
\* a 416, the outcome of the range bound check, and the Content-Range and
\* Content-Length of a 206 and a 416
FromOneStat(st) ==
    LET start == RangeStart(req.range)
        end == RangeEnd(req.range, st.size)
    IN  /\ st.err = "" /\ IsFile(st)
        /\ res.headers["ETag"] # Empty => res.headers["ETag"] = ETagOf(st.size, st.mtime)
        /\ res.status \in {200, 416} => res.headers["Content-Length"] = NatStr(st.size)
        /\ res.status = 416 =>
               /\ RangeNotSatisfiable(start, end, st.size)
               /\ res.headers["Content-Range"] = <<"b", "y", "t", "e", "s", " ", "*", "/">> \o NatStr(st.size)
        /\ res.status = 206 =>
               /\ ~RangeNotSatisfiable(start, end, st.size)
               /\ res.headers["Content-Range"] = ContentRange(start, end, st.size)
               /\ res.headers["Content-Length"] = NumStr(SpanLength(end, start))
               /\ res.stream.end = end

\* The stat results the request has taken: line 139 and line 35
StatsTaken == {dirStats, stats}

\* C18: while other processes write, remove and replace the file between
\* the steps of a request, the response #serveStaticFile writes takes its
\* validator, its lengths, its range check and its Content-Range from one
\* stat result of the request.
C18_ResponseFromOneStat ==
    ServedFile => \E st \in StatsTaken : FromOneStat(st)

\* The file was rewritten between the two stats of the request and again
\* after the second
C18_Witness ==
    /\ ServedFile /\ Finished
    /\ IsFile(dirStats) /\ dirStats.size # stats.size
    /\ Stat(fs, target).size # stats.size
    /\ res.status = 206
    /\ FromOneStat(stats)

C18_WitnessUnsatisfiable ==
    /\ ServedFile /\ Finished
    /\ IsFile(dirStats) /\ dirStats.size = 12 /\ stats.size = 1
    /\ res.status = 416
    /\ FromOneStat(stats)

-----------------------------------------------------------------------------
(* C19 *)

\* The max age the static() calls behind mount k configure, 0 when the
\* option is omitted
MaxAgesOf(k) ==
    {IF "maxAge" \in m[3].given THEN m[3].maxAge ELSE 0 :
        m \in {n \in OptionInputs :
                  /\ ~ArgumentsMissing(n[1], n[2])
                  /\ staticPaths[k] = MountEntry(n[1], n[2], n[3])}}

\* #serveStaticFile has written a 200 or a 206 with the file's content
ContentResponse ==
    /\ ServedFile /\ thrown = NoError
    /\ res.status \in {200, 206}
    /\ res.stream.open

\* 'public, max-age=<n>'
PublicMaxAge(n) == <<"p", "u", "b", "l", "i", "c", ",", " ", "m", "a", "x", "-", "a", "g", "e", "=">> \o NatStr(n)

\* C19 (as claimed): a content response carries Cache-Control exactly when
\* the mount's configured max age is greater than 0, and the header is
\* 'public, max-age=N' for the configured max age N.
C19_MaxAgeAsConfigured ==
    ContentResponse =>
        \A n \in MaxAgesOf(mountIdx) :
            /\ res.headers["Cache-Control"] # Empty <=> n > 0
            /\ n > 0 => res.headers["Cache-Control"] = PublicMaxAge(n)

\* C19 (amended): the configured max age N is in milliseconds and the
\* header is 'public, max-age=' followed by N / 1000 rounded down.
C19_MaxAgeInWholeSeconds ==
    ContentResponse =>
        \A n \in MaxAgesOf(mountIdx) :
            /\ res.headers["Cache-Control"] # Empty <=> n > 0
            /\ n > 0 => res.headers["Cache-Control"] = PublicMaxAge(n \div 1000)

C19_Witness ==
    /\ ContentResponse
    /\ MaxAgesOf(mountIdx) = {2500}
    /\ res.headers["Cache-Control"] = <<"p", "u", "b", "l", "i", "c", ",", " ", "m", "a", "x", "-", "a", "g", "e", "=", "2">>

C19_WitnessBelowOneSecond ==
    /\ ContentResponse
    /\ MaxAgesOf(mountIdx) = {500}
    /\ res.headers["Cache-Control"] = <<"p", "u", "b", "l", "i", "c", ",", " ", "m", "a", "x", "-", "a", "g", "e", "=", "0">>

C19_WitnessNoMaxAge ==
    /\ ContentResponse
    /\ MaxAgesOf(mountIdx) = {0}
    /\ res.headers["Cache-Control"] = Empty

====
